---- MODULE Spec2Model ----
(***************************************************************************)
(* Model of the codec parameter descriptor (src/src/codec/parameters.rs)   *)
(* and of the filter graph with its pad-binding parser                     *)
(* (src/src/filter/graph.rs).                                              *)
(*                                                                         *)
(* Native memory is modelled explicitly: every AVCodecParameters block and *)
(* every AVFilterInOut record is a cell of a heap that is "unalloc",       *)
(* "live" or "freed".  Addresses are never reused, so a freed cell stays   *)
(* recognisable.  The native engine is an opaque backend: where its        *)
(* contract leaves an outcome open (allocation failure, a failing copy,    *)
(* how much of a pad list the parser consumes) the outcome is an input     *)
(* chosen with \E.                                                         *)
(***************************************************************************)
EXTENDS Integers, Sequences, FiniteSets, Bags, TLC

\* ------------------------------------------------------------------ bounds
MaxBlocks == 2
MaxDescs == 2

\* ptr::null_mut(): the null native pointer.
Null == 0
\* owner: None, or Some(the shared owner).
NoOwner == "None"
SomeOwner == "Some"

MaxRecs == 3
MaxNodes == 2
\* The stored extradata lengths tried run over -MaxSize..MaxSize and the two
\* ends of the 32-bit range.
MaxSize == 40

Blocks == 1..MaxBlocks
RecIds == 1..MaxRecs

VARIABLES
    heap,     \* native AVCodecParameters blocks: [st, par]
    descs,    \* the bag of Parameters values the caller holds: [ptr, owner, view]
    owner,    \* the shared owner (Rc<dyn Drop>) of the borrowed block
    last,     \* the descriptor operation that produced this state, with its result
    fault,    \* "none", or how the process died
    nodes,    \* the nodes of the filter graph, by name, in the backend's order
    recs,     \* native AVFilterInOut records: [st, name, ctx, pad, next]
    parser,   \* the Parser the caller holds: [alive, inputs, outputs, ins, outs]
    glast,    \* the graph operation that produced this state, with its result
    ext       \* one call of Parameters::extradata: the two fields it reads, its result

pvars == <<heap, descs, owner, last>>
gvars == <<nodes, recs, parser, glast>>
vars == <<heap, descs, owner, last, fault, nodes, recs, parser, glast, ext>>

\* ------------------------------------------------------- native block contents
\* codec_type is held as its media::Type image; "Subtitle" stands for every
\* medium other than unknown, video and audio.
Media == {"Unknown", "Video", "Audio", "Subtitle"}

\* What avcodec_parameters_alloc leaves in a fresh block.  extradata tells
\* whether the block owns an out-of-band configuration blob (a non-null pointer).
DefaultPar ==
    [codec_type |-> "Unknown", codec_id |-> 0, profile |-> 0, level |-> 0, bit_rate |-> 0,
     extradata |-> FALSE]

\* The parameter sets an external context or stream can carry.
Contexts ==
    { [codec_type |-> "Video", codec_id |-> 1, profile |-> 1, level |-> 1, bit_rate |-> 1,
       extradata |-> TRUE],
      [codec_type |-> "Subtitle", codec_id |-> 2, profile |-> 0, level |-> 1, bit_rate |-> 0,
       extradata |-> FALSE] }

UnallocCell == [st |-> "unalloc", par |-> DefaultPar]
FreedCell == [st |-> "freed", par |-> DefaultPar]
LiveCell(p) == [st |-> "live", par |-> p]

\* A Parameters value: its block pointer, its owner, and the view that wraps it
\* ("none", or "video" / "audio" for Video(Parameters) / Audio(Parameters)).
Desc(p, o, v) == [ptr |-> p, owner |-> o, view |-> v]
Held == BagToSet(descs)
One(x) == SetToBag({x})

NoOwnerRec == [used |-> FALSE, block |-> Null, count |-> 0, held |-> FALSE]

\* The record of one operation: its name, what it returned (res), the pointer
\* and owner of the descriptor it acted on or produced (blk, own), the block of
\* the source of a copy (src), the backend's return code (rc), the medium the
\* descriptor had before the operation (pre; "none" when it had no block), and,
\* for a narrowing called right after a successful narrowing of the same
\* block, that earlier call and the medium it found (fol).
NoFol == [op |-> "none", pre |-> "none"]
NoOp == [op |-> "init", res |-> "none", blk |-> Null, own |-> NoOwner,
         src |-> Null, rc |-> 0, pre |-> "none", fol |-> NoFol]

Op(o, r, b, w, s, c, p, f) ==
    [op |-> o, res |-> r, blk |-> b, own |-> w, src |-> s, rc |-> c, pre |-> p, fol |-> f]

\* The record of an operation that returns nothing the caller can tell apart.
Plain(o) == [NoOp EXCEPT !.op = o, !.res = "ok"]

\* ------------------------------------------------------------------ backend
\* avcodec_parameters_alloc: the lowest address never handed out, or null.
FreshBlock(h) ==
    IF \E b \in Blocks : h[b].st = "unalloc"
    THEN CHOOSE b \in Blocks : h[b].st = "unalloc" /\ \A c \in Blocks : c < b => h[c].st # "unalloc"
    ELSE Null

\* avcodec_parameters_free(&ptr): frees the block; a null pointer is ignored.
\* Freeing a block that is not live is recorded in the cell as "double_free".
BackendFree(h, p) ==
    IF p = Null THEN h
    ELSE IF h[p].st = "live" THEN [h EXCEPT ![p] = FreedCell]
    ELSE [h EXCEPT ![p].st = "double_free"]

\* avcodec_parameters_copy(dst, src) and avcodec_parameters_from_context(dst,
\* ctx): dst is reset, src's scalar fields are copied over it, then the
\* extradata blob is duplicated.  The duplication is the one step that can
\* fail (out of memory): the call then returns a negative code and leaves dst
\* with the copied scalars and no extradata.
CopyCodes(srcPar) == IF srcPar.extradata THEN {0, -12} ELSE {0}
BackendCopy(srcPar, rc) ==
    IF rc >= 0 THEN srcPar ELSE [srcPar EXCEPT !.extradata = FALSE]

\* The codes a backend call can return: zero or a positive value for success,
\* or a negative AVERROR (here AVERROR(ENOMEM)).
RetCodes == {0, 1, -12}

\* ------------------------------------------------------------------ accessors
medium(h, x) == h[x.ptr].par.codec_type
id(h, x) == h[x.ptr].par.codec_id
profile(h, x) == <<id(h, x), h[x.ptr].par.profile>>
level(h, x) == h[x.ptr].par.level
bit_rate(h, x) == h[x.ptr].par.bit_rate

\* ------------------------------------------------------------------ shared owner
\* Dropping one Rc handle: the count goes down, and the owner's destructor runs
\* (releasing the block it owns) when the last handle is gone.
RcFreed(own) == own.count = 1
RcRelease(own) ==
    IF RcFreed(own) THEN NoOwnerRec ELSE [own EXCEPT !.count = @ - 1]
HeapAfterRc(h, own) == IF RcFreed(own) THEN BackendFree(h, own.block) ELSE h

\* ------------------------------------------------------------------ Drop
\* impl Drop for Parameters: the block is freed only when there is no owner.
DropFreesAlways(x) == TRUE
DropFreesNever(x) == FALSE
DropFrees(x) == x.owner = NoOwner

\* The heap and the owner after Parameters x is dropped: Drop::drop runs, then
\* the field `owner` is dropped, which releases the Rc handle it holds.
HeapAfterDrop(h, own, x) ==
    LET h1 == IF DropFrees(x) THEN BackendFree(h, x.ptr) ELSE h
    IN  IF x.owner = NoOwner THEN h1 ELSE HeapAfterRc(h1, own)
OwnerAfterDrop(own, x) ==
    IF x.owner = NoOwner THEN own ELSE RcRelease(own)

\* ------------------------------------------------------------------ narrowing
\* The match of Parameters::video: the result, and whether codec_type is written.
VideoMatchLax(m) ==
    IF m = "Video" THEN [res |-> "ok", write |-> FALSE]
    ELSE [res |-> "ok", write |-> TRUE]
VideoMatch(m) ==
    IF m = "Unknown" THEN [res |-> "ok", write |-> TRUE]
    ELSE IF m = "Video" THEN [res |-> "ok", write |-> FALSE]
    ELSE [res |-> "invalid_data", write |-> FALSE]

\* The match of Parameters::audio.
AudioMatchLax(m) ==
    IF m = "Audio" THEN [res |-> "ok", write |-> FALSE]
    ELSE IF m = "Subtitle" THEN [res |-> "invalid_data", write |-> FALSE]
    ELSE [res |-> "ok", write |-> TRUE]
AudioMatchEager(m) ==
    IF m = "Audio" THEN [res |-> "ok", write |-> FALSE]
    ELSE IF m = "Unknown" THEN [res |-> "ok", write |-> TRUE]
    ELSE [res |-> "invalid_data", write |-> TRUE]
AudioMatch(m) ==
    IF m = "Unknown" THEN [res |-> "ok", write |-> TRUE]
    ELSE IF m = "Audio" THEN [res |-> "ok", write |-> FALSE]
    ELSE [res |-> "invalid_data", write |-> FALSE]

\* ------------------------------------------------------------------ clone
\* Clone::clone takes its block from Parameters::new(): a fresh allocation, no owner.
CloneShallow(h, x) == Desc(x.ptr, NoOwner, "none")
CloneInto(h, x) == Desc(FreshBlock(h), NoOwner, "none")

\* The heap after Clone::clone_from(&mut self, source): the backend copies
\* source's block over self's; the code it returns is discarded.
clone_from_nothing(h, self, source, rc) == h
clone_from(h, self, source, rc) ==
    [h EXCEPT ![self.ptr].par = BackendCopy(h[source.ptr].par, rc)]

\* ------------------------------------------------------------------ extradata
\* extradata_size is a C int: a signed 32-bit value.
I32Max == 2^30 + (2^30 - 1)
I32Min == (-I32Max) - 1
Sizes == (-MaxSize..MaxSize) \cup {I32Max, I32Min}

\* `n as usize` for a signed 32-bit n on a 64-bit target: the value is
\* hi * 2^64 + lo (a negative n is sign-extended, so it wraps to 2^64 + n).
AsUsize(n) == IF n >= 0 THEN [hi |-> 0, lo |-> n] ELSE [hi |-> 1, lo |-> n]

\* Parameters::extradata(&self): None for a null pointer, else a slice at the
\* pointer of extradata_size as usize bytes.
extradata(nonnull, size) ==
    IF ~nonnull THEN [res |-> "None", len |-> AsUsize(0)]
    ELSE [res |-> "Some", len |-> AsUsize(size)]

\* No call of extradata made or pending.
NoExt == [nonnull |-> FALSE, size |-> 0, out |-> [res |-> "idle", len |-> AsUsize(0)]]

\* ------------------------------------------------------------------ filter graph
\* The node names and pad indexes the caller uses.
Names == {"a", "b"}
Pads == {0, 1}

UnallocRec == [st |-> "unalloc", name |-> "", ctx |-> Null, pad |-> 0, next |-> Null]
FreedRec == [st |-> "freed", name |-> "", ctx |-> Null, pad |-> 0, next |-> Null]

\* Parser::new(graph): both lists null.  ins and outs list, in call order, the
\* records input and output allocated for this parser.
NewParser == [alive |-> TRUE, inputs |-> Null, outputs |-> Null, ins |-> <<>>, outs |-> <<>>]
NoParser == [alive |-> FALSE, inputs |-> Null, outputs |-> Null, ins |-> <<>>, outs |-> <<>>]

\* The record of one graph operation: its name, what it returned, the records
\* that had been allocated for the parser it ended, and, where the call has
\* them, the node name and pad index it was given (name, pad), the code the
\* backend returned (rc) and the node it resolved (ctx).
NoGOp == [op |-> "init", res |-> "none", ins |-> <<>>, outs |-> <<>>,
          name |-> "", pad |-> 0, rc |-> 0, ctx |-> Null]
GOp(o, r, self) == [NoGOp EXCEPT !.op = o, !.res = r, !.ins = self.ins, !.outs = self.outs]

Range(q) == {q[i] : i \in 1..Len(q)}

\* avfilter_graph_get_filter: the first node of that name, or null.
GetFilterNull(ns, name) == Null
GetFilter(ns, name) ==
    IF \E i \in 1..Len(ns) : ns[i] = name
    THEN CHOOSE i \in 1..Len(ns) : ns[i] = name /\ \A j \in 1..(i - 1) : ns[j] # name
    ELSE Null

\* Graph::get(name): None for a null pointer, else the node.
get_first(ns, name) == IF Len(ns) > 0 THEN 1 ELSE Null
get(ns, name) == GetFilter(ns, name)

\* avfilter_inout_alloc: the lowest address never handed out, or null.
FreshRec(rs) ==
    IF \E r \in RecIds : rs[r].st = "unalloc"
    THEN CHOOSE r \in RecIds : rs[r].st = "unalloc" /\ \A q \in RecIds : q < r => rs[q].st # "unalloc"
    ELSE Null

\* The records reached from a list head by following next, live or not.
RECURSIVE Chain(_, _)
Chain(rs, head) ==
    IF head = Null THEN <<>>
    ELSE <<head>> \o Chain(rs, rs[head].next)

\* One record after it is released: a live record becomes freed; releasing a
\* record that is not live is recorded in it as "double_free".
FreeRec(rec) == IF rec.st = "live" THEN FreedRec ELSE [rec EXCEPT !.st = "double_free"]

\* avfilter_inout_free(&head): frees every record of the list.
InOutFree(rs, head) ==
    [r \in RecIds |-> IF r \in Range(Chain(rs, head)) THEN FreeRec(rs[r]) ELSE rs[r]]

\* The head and the records after a new record r is linked into the list at
\* head: r becomes the head of an empty list, else head.next is set to r.  A
\* write to a head that is not live is recorded in it as "use_after_free".
Link(rs, head, r) ==
    IF head = Null THEN [head |-> r, recs |-> rs]
    ELSE IF rs[head].st = "live" THEN [head |-> head, recs |-> [rs EXCEPT ![head].next = r]]
    ELSE [head |-> head, recs |-> [rs EXCEPT ![head].st = "use_after_free"]]

\* avfilter_graph_parse_ptr(graph, spec, &inputs, &outputs): the backend frees
\* the first k records of a list as it links them, and hands back the rest; on
\* a failure code it frees both lists and hands back null.
RestStale(rs, head, k) == head
Rest(rs, head, k) ==
    LET c == Chain(rs, head) IN IF k < Len(c) THEN c[k + 1] ELSE Null
FreeFirst(rs, head, k) ==
    LET c == Chain(rs, head)
    IN  [r \in RecIds |-> IF \E i \in 1..Len(c) : i <= k /\ c[i] = r THEN FreeRec(rs[r]) ELSE rs[r]]
BackendParse(rs, self, rc, ki, ko) ==
    LET i == IF rc < 0 THEN Len(Chain(rs, self.inputs)) ELSE ki
        o == IF rc < 0 THEN Len(Chain(rs, self.outputs)) ELSE ko
    IN  [recs |-> FreeFirst(FreeFirst(rs, self.inputs, i), self.outputs, o),
         inputs |-> Rest(rs, self.inputs, i),
         outputs |-> Rest(rs, self.outputs, o)]

\* ------------------------------------------------------------------ initial state
Init ==
    /\ heap = [b \in Blocks |-> UnallocCell]
    /\ descs = EmptyBag
    /\ owner = NoOwnerRec
    /\ last = NoOp
    /\ fault = "none"
    /\ nodes = <<>>
    /\ recs = [r \in RecIds |-> UnallocRec]
    /\ parser = NoParser
    /\ glast = NoGOp
    /\ ext = NoExt

\* The caller can hold one more Parameters value.
Room == BagCardinality(descs) < MaxDescs

\* A dereference of a null block pointer: the process dies.
NullDeref(o) ==
    /\ fault' = "null_deref"
    /\ last' = [Plain(o) EXCEPT !.res = "crash"]
    /\ UNCHANGED <<heap, descs, owner, gvars, ext>>

\* ------------------------------------------------------------------ operations
\* Parameters::new(): the pointer the allocator returns is stored unchecked.
New(ok) ==
    /\ fault = "none"
    /\ Room
    /\ ok => FreshBlock(heap) # Null
    /\ LET p == IF ok THEN FreshBlock(heap) ELSE Null
       IN  /\ heap' = IF p = Null THEN heap ELSE [heap EXCEPT ![p] = LiveCell(DefaultPar)]
           /\ descs' = descs (+) One(Desc(p, NoOwner, "none"))
           /\ last' = Plain("new")
    /\ UNCHANGED <<owner, fault, gvars, ext>>

\* Parameters::from(context): new(), then the backend fills the block from the
\* context; the code it returns is discarded.
FromContext(ctx, ok, rc) ==
    /\ fault = "none"
    /\ Room
    /\ ok => FreshBlock(heap) # Null
    /\ rc \in CopyCodes(ctx)
    /\ IF ~ok THEN NullDeref("from")
       ELSE LET p == FreshBlock(heap)
            IN  /\ heap' = [heap EXCEPT ![p] = LiveCell(BackendCopy(ctx, rc))]
                /\ descs' = descs (+) One(Desc(p, NoOwner, "none"))
                /\ last' = Plain("from")
                /\ UNCHANGED <<owner, fault, gvars, ext>>

\* The external owner (a stream of a format context, say) comes to hold a block
\* of its own behind an Rc; the caller keeps the first handle.
OwnerCreate(ctx) ==
    /\ fault = "none"
    /\ ~owner.used
    /\ FreshBlock(heap) # Null
    /\ LET p == FreshBlock(heap)
       IN  /\ heap' = [heap EXCEPT ![p] = LiveCell(ctx)]
           /\ owner' = [used |-> TRUE, block |-> p, count |-> 1, held |-> TRUE]
           /\ last' = Plain("owner_create")
    /\ UNCHANGED <<descs, fault, gvars, ext>>

\* Parameters::wrap(ptr, Some(owner)): a borrowed descriptor; the Rc handle moved
\* into it is one more holder of the owner.
Wrap ==
    /\ fault = "none"
    /\ Room
    /\ owner.used
    /\ descs' = descs (+) One(Desc(owner.block, SomeOwner, "none"))
    /\ owner' = [owner EXCEPT !.count = @ + 1]
    /\ last' = Plain("wrap")
    /\ UNCHANGED <<heap, fault, gvars, ext>>

\* The caller gives up the handle it kept of the owner.
OwnerRelease ==
    /\ fault = "none"
    /\ owner.used
    /\ owner.held
    /\ heap' = HeapAfterRc(heap, owner)
    /\ owner' = RcRelease([owner EXCEPT !.held = FALSE])
    /\ last' = Plain("owner_release")
    /\ UNCHANGED <<descs, fault, gvars, ext>>

\* A Parameters value (or the view that holds it) goes out of scope.
DropDesc(x) ==
    /\ fault = "none"
    /\ x \in Held
    /\ heap' = HeapAfterDrop(heap, owner, x)
    /\ owner' = OwnerAfterDrop(owner, x)
    /\ descs' = descs (-) One(x)
    /\ last' = Op("drop", "ok", x.ptr, x.owner, Null, 0, "none", NoFol)
    /\ UNCHANGED <<fault, gvars, ext>>

\* The successful narrowing this call comes right after, if any.
Follows(x) ==
    IF last.op \in {"video", "audio"} /\ last.res = "ok" /\ last.blk = x.ptr /\ x.view = last.op
    THEN [op |-> last.op, pre |-> last.pre]
    ELSE NoFol

\* The body shared by video() and audio(): read the medium, write the tag when
\* the match says so, wrap self in the view on success; on failure self is not
\* returned and is dropped at the end of the call.
Narrow(x, name, tag, r) ==
    LET h1 == IF r.write THEN [heap EXCEPT ![x.ptr].par.codec_type = tag] ELSE heap
    IN  /\ IF r.res = "ok"
           THEN /\ heap' = h1
                /\ descs' = (descs (-) One(x)) (+) One([x EXCEPT !.view = name])
                /\ UNCHANGED owner
           ELSE /\ heap' = HeapAfterDrop(h1, owner, x)
                /\ owner' = OwnerAfterDrop(owner, x)
                /\ descs' = descs (-) One(x)
        /\ last' = Op(name, r.res, x.ptr, x.owner, Null, 0, medium(heap, x), Follows(x))
        /\ UNCHANGED <<fault, gvars, ext>>

\* Parameters::video(self), also reached on the descriptor a view holds (field 0).
Video(x) ==
    /\ fault = "none"
    /\ x \in Held
    /\ IF x.ptr = Null THEN NullDeref("video")
       ELSE Narrow(x, "video", "Video", VideoMatch(medium(heap, x)))

\* Parameters::audio(self).
Audio(x) ==
    /\ fault = "none"
    /\ x \in Held
    /\ IF x.ptr = Null THEN NullDeref("audio")
       ELSE Narrow(x, "audio", "Audio", AudioMatch(medium(heap, x)))

\* A call of Clone::clone_from(&mut self, source); self and source are two values.
CloneFrom(x, s, rc) ==
    /\ fault = "none"
    /\ x \in Held
    /\ s \in Held
    /\ x = s => CopiesIn(x, descs) > 1
    /\ IF x.ptr = Null \/ s.ptr = Null THEN NullDeref("clone_from")
       ELSE /\ rc \in CopyCodes(heap[s.ptr].par)
            /\ heap' = clone_from(heap, x, s, rc)
            /\ last' = Plain("clone_from")
            /\ UNCHANGED <<descs, owner, fault, gvars, ext>>

\* Clone::clone(&self): Parameters::new(), then clone_from(self) into it.
Clone(s, ok, rc) ==
    /\ fault = "none"
    /\ s \in Held
    /\ Room
    /\ ok => FreshBlock(heap) # Null
    /\ IF ~ok \/ s.ptr = Null THEN NullDeref("clone")
       ELSE LET c == CloneInto(heap, s)
                h1 == [heap EXCEPT ![c.ptr] = LiveCell(DefaultPar)]
            IN  /\ rc \in CopyCodes(heap[s.ptr].par)
                /\ heap' = clone_from(h1, c, s, rc)
                /\ descs' = descs (+) One(c)
                /\ last' = Op("clone", "ok", c.ptr, c.owner, s.ptr, rc, "none", NoFol)
                /\ UNCHANGED <<owner, fault, gvars, ext>>

PNext ==
    \/ \E ok \in BOOLEAN : New(ok)
    \/ \E ctx \in Contexts, ok \in BOOLEAN, rc \in RetCodes : FromContext(ctx, ok, rc)
    \/ \E ctx \in Contexts : OwnerCreate(ctx)
    \/ Wrap
    \/ OwnerRelease
    \/ \E x \in Held : DropDesc(x)
    \/ \E x \in Held : Video(x)
    \/ \E x \in Held : Audio(x)
    \/ \E x \in Held, s \in Held, rc \in RetCodes : CloneFrom(x, s, rc)
    \/ \E s \in Held, ok \in BOOLEAN, rc \in RetCodes : Clone(s, ok, rc)

ParamSpec == Init /\ [][PNext]_vars

\* ------------------------------------------------------------------ graph operations
\* The parser a call is made on: the one the caller holds, or the one that
\* Graph::input, Graph::output and Graph::parse make with Parser::new(self).
Receiver == IF parser.alive THEN parser ELSE NewParser

\* Graph::add(filter, name, args): the backend creates the node and appends it
\* to the graph, or rejects the arguments with a negative code.
Add(name, rc) ==
    /\ fault = "none"
    /\ ~parser.alive
    /\ Len(nodes) < MaxNodes
    /\ nodes' = IF rc >= 0 THEN Append(nodes, name) ELSE nodes
    /\ glast' = [GOp("add", IF rc >= 0 THEN "ok" ELSE "backend_error", NoParser) EXCEPT
                     !.name = name, !.rc = rc]
    /\ UNCHANGED <<recs, parser, fault, pvars, ext>>

\* Graph::validate(): the backend configures the graph; code 0 is Ok and every
\* other code is an error.
Validate(rc) ==
    /\ fault = "none"
    /\ ~parser.alive
    /\ glast' = [GOp("validate", IF rc = 0 THEN "ok" ELSE "backend_error", NoParser) EXCEPT
                     !.rc = rc]
    /\ UNCHANGED <<nodes, recs, parser, fault, pvars, ext>>

\* Graph::get(name), called by the holder of the graph: Some(node) or None.
Get(name) ==
    LET ctx == get(nodes, name)
    IN  /\ fault = "none"
        /\ ~parser.alive
        /\ glast' = [GOp("get", IF ctx = Null THEN "none" ELSE "some", NoParser) EXCEPT
                         !.name = name, !.ctx = ctx]
        /\ UNCHANGED <<nodes, recs, parser, fault, pvars, ext>>

\* The body shared by Parser::input and Parser::output: look the node up (self
\* is dropped on the early return), allocate a record (a null record is a
\* panic), fill it, link it.
Bind(name, pad, ok, dir) ==
    LET self == Receiver
        ctx == get(nodes, name)
    IN  /\ fault = "none"
        /\ (ctx # Null /\ ok) => FreshRec(recs) # Null
        /\ IF ctx = Null
           THEN /\ parser' = NoParser
                /\ glast' = [GOp(dir, "invalid_data", self) EXCEPT !.name = name]
                /\ UNCHANGED <<recs, fault>>
           ELSE IF ~ok
           THEN /\ fault' = "oom_panic"
                /\ glast' = GOp(dir, "panic", NoParser)
                /\ UNCHANGED <<recs, parser>>
           ELSE LET r == FreshRec(recs)
                    rs == [recs EXCEPT ![r] = [st |-> "live", name |-> name, ctx |-> ctx,
                                               pad |-> pad, next |-> Null]]
                    l == Link(rs, IF dir = "input" THEN self.inputs ELSE self.outputs, r)
                IN  /\ recs' = l.recs
                    /\ parser' = IF dir = "input"
                                 THEN [self EXCEPT !.inputs = l.head, !.ins = Append(@, r)]
                                 ELSE [self EXCEPT !.outputs = l.head, !.outs = Append(@, r)]
                    /\ glast' = [GOp(dir, "ok", NoParser) EXCEPT
                                     !.name = name, !.pad = pad, !.ctx = ctx]
                    /\ UNCHANGED fault
        /\ UNCHANGED <<nodes, pvars, ext>>

\* Parser::input(self, name, pad), and Graph::input on a parser made for the call.
Input(name, pad, ok) == Bind(name, pad, ok, "input")

\* Parser::output(self, name, pad), and Graph::output.
Output(name, pad, ok) == Bind(name, pad, ok, "output")

\* Parser::parse(self, spec), and Graph::parse: the backend parses spec against
\* the two lists, then both lists are freed and self is gone.  On a failure
\* the backend may free every node of the graph (wipe).
Parse(rc, ki, ko, wipe) ==
    LET self == Receiver
        b == BackendParse(recs, self, rc, ki, ko)
    IN  /\ fault = "none"
        /\ wipe => rc < 0
        /\ ki <= Len(Chain(recs, self.inputs))
        /\ ko <= Len(Chain(recs, self.outputs))
        /\ recs' = InOutFree(InOutFree(b.recs, b.inputs), b.outputs)
        /\ nodes' = IF wipe THEN <<>> ELSE nodes
        /\ parser' = NoParser
        /\ glast' = [GOp("parse", IF rc >= 0 THEN "ok" ELSE "backend_error", self) EXCEPT
                         !.rc = rc]
        /\ UNCHANGED <<fault, pvars, ext>>

\* The caller lets a Parser go out of scope without calling parse.  Parser has
\* no Drop: its two raw pointers are forgotten.
Discard ==
    /\ fault = "none"
    /\ parser.alive
    /\ parser' = NoParser
    /\ glast' = GOp("discard", "ok", parser)
    /\ UNCHANGED <<nodes, recs, fault, pvars, ext>>

GNext ==
    \/ \E name \in Names, rc \in RetCodes : Add(name, rc)
    \/ \E name \in Names : Get(name)
    \/ \E rc \in RetCodes : Validate(rc)
    \/ \E name \in Names, pad \in Pads, ok \in BOOLEAN : Input(name, pad, ok)
    \/ \E name \in Names, pad \in Pads, ok \in BOOLEAN : Output(name, pad, ok)
    \/ \E rc \in RetCodes, ki \in 0..MaxRecs, ko \in 0..MaxRecs, wipe \in BOOLEAN :
          Parse(rc, ki, ko, wipe)
    \/ Discard

GraphSpec == Init /\ [][GNext]_vars

\* ------------------------------------------------------------------ extradata call
\* A block whose extradata pointer and extradata_size hold any values, and a
\* call of extradata() on a descriptor of it about to be made.
ExtInit ==
    /\ heap = [b \in Blocks |-> UnallocCell]
    /\ descs = EmptyBag
    /\ owner = NoOwnerRec
    /\ last = NoOp
    /\ fault = "none"
    /\ nodes = <<>>
    /\ recs = [r \in RecIds |-> UnallocRec]
    /\ parser = NoParser
    /\ glast = NoGOp
    /\ ext \in [nonnull : BOOLEAN, size : Sizes, out : {[res |-> "pending", len |-> AsUsize(0)]}]

\* The call returns.
Extradata ==
    /\ ext.out.res = "pending"
    /\ ext' = [ext EXCEPT !.out = extradata(ext.nonnull, ext.size)]
    /\ UNCHANGED <<fault, pvars, gvars>>

ExtNext == Extradata

ExtSpec == ExtInit /\ [][ExtNext]_vars

\* ================================================================== claims
Narrowings == {"video", "audio"}
TagOf(name) == IF name = "video" THEN "Video" ELSE "Audio"
\* The view a successful narrowing returned.
ViewOfLast == Desc(last.blk, last.own, last.op)

\* C1: narrowing follows the transition table.  video() on an unknown medium
\* succeeds and sets only the medium tag, to video; video() on video succeeds
\* and changes no field; video() on audio or any other medium fails with
\* invalid-data; and the same for audio() with the two tags exchanged.
C1_Table ==
    (last.op \in Narrowings /\ last.res # "crash") =>
        /\ last.pre \in {"Unknown", TagOf(last.op)} =>
              /\ last.res = "ok"
              /\ ViewOfLast \in Held
              /\ heap[last.blk].st = "live"
              /\ heap[last.blk].par.codec_type = TagOf(last.op)
        /\ last.pre \notin {"Unknown", TagOf(last.op)} => last.res = "invalid_data"
C1_Writes ==
    (last'.op \in Narrowings /\ last'.res = "ok") =>
        heap' = [heap EXCEPT ![last'.blk].par.codec_type = TagOf(last'.op)]
\* C1: the table holds after every narrowing, and a successful narrowing writes
\* nothing but the medium tag.
C1_TransitionTable == [](C1_Table) /\ [][C1_Writes]_vars
C1_Witness ==
    /\ last.op = "video"
    /\ last.res = "ok"
    /\ last.pre = "Unknown"
    /\ medium(heap, ViewOfLast) = "Video"

\* C2: video() on a descriptor of unknown medium succeeds and the view it
\* returns has medium video; audio() called next on the descriptor that view
\* holds fails with invalid-data.  The same with video and audio exchanged.
C2_NarrowThenOther ==
    /\ (last.op \in Narrowings /\ last.pre = "Unknown") =>
          /\ last.res = "ok"
          /\ ViewOfLast \in Held
          /\ medium(heap, ViewOfLast) = TagOf(last.op)
    /\ (last.op \in Narrowings /\ last.fol.pre = "Unknown" /\ last.fol.op # last.op) =>
          last.res = "invalid_data"
C2_Witness ==
    /\ last.op = "audio"
    /\ last.fol = [op |-> "video", pre |-> "Unknown"]
    /\ last.res = "invalid_data"

FailedNarrowing(l) == l.op \in Narrowings /\ l.res = "invalid_data"

C3_Outcome ==
    FailedNarrowing(last) =>
        /\ last.pre \notin {"Unknown", TagOf(last.op)}
        /\ (last.own = SomeOwner /\ owner.used) =>
              /\ heap[last.blk].st = "live"
              /\ heap[last.blk].par.codec_type = last.pre
        /\ (last.own = NoOwner \/ ~owner.used) => heap[last.blk].st = "freed"
C3_NoWrite ==
    FailedNarrowing(last') =>
        \A b \in Blocks : heap'[b] = heap[b] \/ (b = last'.blk /\ heap'[b] = FreedCell)
C4_NeverBackToUnknown ==
    [][\A x \in Held :
          (x.ptr # Null /\ medium(heap, x) \in {"Video", "Audio"} /\ heap'[x.ptr].st = "live")
              => heap'[x.ptr].par.codec_type # "Unknown"]_vars

Borrowed == {x \in Held : x.owner = SomeOwner}

\* C5: dropping a borrowed descriptor never frees the block: it gives up one
\* hold on the shared owner, and the block is freed exactly when the last
\* holder, the original one included, is gone.  Dropping an exclusive
\* descriptor frees its block.
C5_DropRespectsOwner ==
    /\ owner.used =>
          /\ heap[owner.block].st = "live"
          /\ owner.count >= 1
          /\ owner.count = (IF owner.held THEN 1 ELSE 0)
                             + CopiesIn(Desc(owner.block, SomeOwner, "none"), descs)
                             + CopiesIn(Desc(owner.block, SomeOwner, "video"), descs)
                             + CopiesIn(Desc(owner.block, SomeOwner, "audio"), descs)
    /\ \A x \in Borrowed : owner.used /\ x.ptr = owner.block
    /\ (last.op = "drop" /\ last.own = NoOwner /\ last.blk # Null) =>
          heap[last.blk].st = "freed"
    /\ (last.op = "drop" /\ last.own = SomeOwner) =>
          (heap[last.blk].st = "freed" <=> ~owner.used)
C5_Witness ==
    /\ last.op = "drop"
    /\ last.own = SomeOwner
    /\ owner.used
    /\ ~owner.held
    /\ heap[last.blk].st = "live"

\* C6: clone() of any descriptor returns an exclusive descriptor on a block
\* allocated for it.  No other descriptor and no owner refers to the block of
\* an exclusive descriptor, the block is live for as long as the descriptor is
\* held, and dropping an exclusive descriptor changes no other block.
C6_State ==
    /\ (last.op = "clone" /\ last.res = "ok") =>
          /\ last.own = NoOwner
          /\ last.blk # Null
          /\ last.blk # last.src
          /\ Desc(last.blk, NoOwner, "none") \in Held
    /\ \A x \in Held : (x.owner = NoOwner /\ x.ptr # Null) =>
          /\ heap[x.ptr].st = "live"
          /\ CopiesIn(x, descs) = 1
          /\ \A y \in Held : y.ptr = x.ptr => y = x
          /\ ~(owner.used /\ owner.block = x.ptr)
C6_Step ==
    /\ (last'.op = "clone" /\ last'.res = "ok") => heap[last'.blk].st = "unalloc"
    /\ (last'.op = "drop" /\ last'.own = NoOwner) =>
          \A b \in Blocks : b # last'.blk => heap'[b] = heap[b]
\* C6: the clone is exclusive on a block allocated by the call, and an
\* exclusive drop touches no other block.
C6_CloneIsIndependent == [](C6_State) /\ [][C6_Step]_vars
C6_Witness ==
    /\ last.op = "clone"
    /\ last.res = "ok"
    /\ Desc(last.src, SomeOwner, "none") \in Held
    /\ heap[last.blk].st = "live"

\* C7: the descriptor clone() returns has the id, profile, medium, level and
\* bit rate of the descriptor it was cloned from, whether the backend's copy
\* reported success or failure.
C7_Step ==
    (last'.op = "clone" /\ last'.res = "ok") =>
        LET c == Desc(last'.blk, last'.own, "none")
            d == Desc(last'.src, NoOwner, "none")
        IN  /\ id(heap', c) = id(heap, d)
            /\ profile(heap', c) = profile(heap, d)
            /\ medium(heap', c) = medium(heap, d)
            /\ level(heap', c) = level(heap, d)
            /\ bit_rate(heap', c) = bit_rate(heap, d)
            /\ heap'[d.ptr] = heap[d.ptr]
Allocated(l) == Range(l.ins) \cup Range(l.outs)

\* C8: when a parser that holds bindings is discarded without parse ever being
\* called, no record allocated for it stays allocated.
C8_DiscardReleasesBindings ==
    glast.op = "discard" => \A r \in Allocated(glast) : recs[r].st # "live"

\* C9: after any number of successful input and output calls the pending input
\* list holds exactly the records of the input calls, in call order, and the
\* pending output list those of the output calls.
C9_ListsKeepEveryBinding ==
    parser.alive =>
        /\ Chain(recs, parser.inputs) = parser.ins
        /\ Chain(recs, parser.outputs) = parser.outs

\* C10: when parse returns, with success or with a backend error, every record
\* input and output allocated for the parser has been released.
C10_ParseReleasesBindings ==
    glast.op = "parse" => \A r \in Allocated(glast) : recs[r].st = "freed"

\* C11: when input or output fails with invalid-data on a parser that holds
\* bindings from earlier calls, no record allocated for that parser stays
\* allocated once the error is returned.
C11_ErrorPathReleasesBindings ==
    (glast.op \in {"input", "output"} /\ glast.res = "invalid_data") =>
        \A r \in Allocated(glast) : recs[r].st # "live"

\* The pending list of the side a call was made on.
SideOf(l, ps) == IF l.op = "input" THEN ps.inputs ELSE ps.outputs
\* The records allocated by the step.
NewRecs == {r \in RecIds : recs[r].st = "unalloc" /\ recs'[r].st # "unalloc"}

\* C12: input(name, pad) and output(name, pad) return invalid-data exactly
\* when the graph holds no node of that name at the call, and then allocate no
\* record; when the node exists the call that returns has allocated exactly
\* one record, filled with (name, pad) and that node, and linked it into the
\* pending list of its side.
C12_Step ==
    (glast'.op \in {"input", "output"} /\ glast'.res # "panic") =>
        LET l == glast'
            missing == \A i \in 1..Len(nodes) : nodes[i] # l.name
        IN  /\ l.res = "invalid_data" <=> missing
            /\ l.res = "ok" <=> ~missing
            /\ missing => NewRecs = {}
            /\ ~missing =>
                  /\ Cardinality(NewRecs) = 1
                  /\ \A r \in NewRecs :
                        /\ recs'[r].st = "live"
                        /\ recs'[r].name = l.name
                        /\ recs'[r].pad = l.pad
                        /\ recs'[r].ctx = l.ctx
                        /\ nodes[l.ctx] = l.name
                        /\ r \in Range(Chain(recs', SideOf(l, parser')))
\* C12: every step of input or output obeys the rule above.
C12_BindFailsIffNodeMissing == [][C12_Step]_vars
C12_Witness ==
    /\ glast.op = "output"
    /\ glast.res = "ok"
    /\ glast.pad = 1
    /\ Len(Chain(recs, parser.outputs)) = 2
    /\ recs[parser.outputs].pad = 0

\* C13: get(name) returns None exactly when the graph holds no node of that
\* name, and a node of that name otherwise, so right after a successful
\* add(_, name, _) it returns Some; get changes no node; and a name enters the
\* graph only by a successful add of that name.
C13_Step ==
    /\ glast'.op = "get" =>
          /\ nodes' = nodes
          /\ glast'.res = "none" <=> (\A i \in 1..Len(nodes) : nodes[i] # glast'.name)
          /\ glast'.res \in {"none", "some"}
          /\ glast'.res = "some" =>
                (glast'.ctx \in 1..Len(nodes) /\ nodes[glast'.ctx] = glast'.name)
          /\ (glast.op = "add" /\ glast.res = "ok" /\ glast.name = glast'.name) =>
                glast'.res = "some"
    /\ \A i \in 1..Len(nodes') :
          (i > Len(nodes) \/ nodes'[i] # nodes[i]) =>
              (glast'.op = "add" /\ glast'.res = "ok" /\ glast'.name = nodes'[i])
\* C13: every step obeys the rule above.
C13_GetFindsWhatAddAdded == [][C13_Step]_vars
C13_Witness ==
    /\ glast.op = "get"
    /\ glast.res = "some"
    /\ glast.ctx = 2
    /\ nodes[1] # glast.name

\* C14: an add whose name is already carried by a node of the graph returns a
\* backend error and leaves the nodes of the graph unchanged.
C14_DuplicateAddFails ==
    [][(glast'.op = "add" /\ \E i \in 1..Len(nodes) : nodes[i] = glast'.name) =>
          (glast'.res = "backend_error" /\ nodes' = nodes)]_vars

\* C15: a failed native allocation ends the process by a panic: no descriptor
\* with a null block pointer is ever held by the caller, no pending list ever
\* holds a null record, and no null pointer is ever dereferenced.
C15_AllocationFailureIsFatal ==
    /\ \A x \in Held : x.ptr # Null
    /\ fault \in {"none", "oom_panic"}
    /\ \A r \in Range(parser.ins) \cup Range(parser.outs) : r # Null

\* C16: add, validate and parse return an error exactly when the backend call
\* returned a negative code, and success for zero and for every positive code.
C16_UniformCodeMapping ==
    glast.op \in {"add", "validate", "parse"} =>
        (glast.res = "ok" <=> glast.rc >= 0)

\* C17: in every reachable state the block behind a Video view has medium
\* video and the block behind an Audio view has medium audio.
C17_ViewMediumMatchesKind ==
    \A x \in Held :
        (x.view \in Narrowings /\ x.ptr # Null /\ heap[x.ptr].st = "live") =>
            medium(heap, x) = TagOf(x.view)

\* The steps that may free the block of an exclusive descriptor: its drop, and
\* a narrowing of it that fails.
Releases(l, b) ==
    /\ l.blk = b
    /\ l.own = NoOwner
    /\ l.op = "drop" \/ FailedNarrowing(l)

\* C18: every block of an exclusive descriptor is freed exactly once.  No block
\* is ever freed twice; a block is live exactly as long as a descriptor or the
\* shared owner holds it, so none is left allocated without a holder.
C18_State ==
    /\ \A b \in Blocks : heap[b].st \in {"unalloc", "live", "freed"}
    /\ \A b \in Blocks : heap[b].st = "live" =>
          \/ \E x \in Held : x.ptr = b
          \/ owner.used /\ owner.block = b
    /\ \A x \in Held : (x.owner = NoOwner /\ x.ptr # Null) => heap[x.ptr].st = "live"
\* C18: a failed narrowing of an exclusive descriptor frees its block in that
\* step, a successful narrowing keeps the block live under the view, and the
\* block of an exclusive descriptor is freed by no other step than its drop or
\* its failed narrowing.
C18_Step ==
    /\ (FailedNarrowing(last') /\ last'.own = NoOwner) =>
          (heap[last'.blk].st = "live" /\ heap'[last'.blk].st = "freed")
    /\ (last'.op \in Narrowings /\ last'.res = "ok") =>
          (heap'[last'.blk].st = "live" /\ ViewOfLast' \in BagToSet(descs'))
    /\ \A x \in Held : (x.owner = NoOwner /\ x.ptr # Null /\ heap'[x.ptr].st # "live") =>
          Releases(last', x.ptr)
\* C18: the state rule and the step rule together.
C18_FreedExactlyOnce == [](C18_State) /\ [][C18_Step]_vars
C18_Witness ==
    /\ FailedNarrowing(last)
    /\ last.own = NoOwner
    /\ heap[last.blk].st = "freed"
    /\ \E x \in Held : x.view \in Narrowings /\ x.owner = NoOwner

\* The records the pending lists of a parser reach.
Pending(rs, ps) == Range(Chain(rs, ps.inputs)) \cup Range(Chain(rs, ps.outputs))

\* C19: no record is ever released twice or written after its release; every
\* record a live parser's lists reach is live; and once the parser is gone it
\* holds no pointer at all.
C19_State ==
    /\ \A r \in RecIds : recs[r].st \in {"unalloc", "live", "freed"}
    /\ parser.alive => \A r \in Pending(recs, parser) : recs[r].st = "live"
    /\ ~parser.alive => parser = NoParser
    /\ glast.op = "parse" => ~parser.alive
\* C19: the records handed to the backend by parse are live at the call and
\* freed when it returns, and parse is the one step that hands records over:
\* any other step frees no record.
C19_Step ==
    /\ glast'.op = "parse" =>
          \A r \in Pending(recs, Receiver) : recs[r].st = "live" /\ recs'[r].st = "freed"
    /\ glast'.op # "parse" =>
          \A r \in RecIds : recs[r].st = "live" => recs'[r].st = "live"
\* C19: the state rule and the step rule together.
C19_NoDoubleReleaseNoUseAfter == [](C19_State) /\ [][C19_Step]_vars
C19_Witness ==
    /\ glast.op = "parse"
    /\ glast.res = "ok"
    /\ Len(glast.ins) = 2
    /\ Len(glast.outs) = 1
    /\ \A r \in Allocated(glast) : recs[r].st = "freed"

\* C20: extradata() returns None exactly when the pointer is null; otherwise
\* the length of the slice it returns equals the stored extradata_size, and
\* so never exceeds it, for every value of that signed 32-bit field.
C20_ExtradataLength ==
    ext.out.res \in {"None", "Some"} =>
        /\ ext.out.res = "None" <=> ~ext.nonnull
        /\ ext.out.res = "Some" =>
              /\ ext.out.len.hi = 0
              /\ ext.out.len.lo = ext.size

====
